---------------------------- MODULE Spec2Model ----------------------------
(***************************************************************************)
(* Byte-level model of the reMarkable v6 ".rm" parser (src/src/parser.py). *)
(*                                                                         *)
(* A file is a sequence of bytes (0..255).  The cursor `pos` is the        *)
(* 0-based offset of the underlying binary stream, so the byte at the      *)
(* cursor is data[pos + 1].  Every reader below takes the bytes d and the   *)
(* reader state s left by the statement before it, and returns the reader  *)
(* state after the call, a record                                          *)
(*     [err |-> "none" | "EOFError" | "ValueError", pos |-> the cursor,    *)
(*      val |-> the value returned]                                        *)
(* so that the cursor an exception leaves behind is part of the result.    *)
(* A raised exception skips the statements that follow it: a reader handed *)
(* a state with err # "none" returns that state unchanged, which is the     *)
(* first test of every reader.                                             *)
(***************************************************************************)
EXTENDS Integers, Sequences, FiniteSets, TLC

VARIABLES
    data,             \* the bytes of the file / stream being read
    pos,              \* reader.stream.tell()
    pc,               \* position of parse_file: start, loop, envelope, value, done, failed
    err,              \* the exception that left parse_file ("none" when none did)
    strokes,          \* default_layer.strokes
    hdr_start,        \* cursor at which the last read_block_header was called
    block_type,       \* block_type of the last block header
    block_end,        \* block_end of the last block header (block_start + length)
    iter,             \* number of block headers read so far
    caught,           \* exception caught by the `except Exception` of the current block
    reader_block_end, \* TaggedBlockReader._block_end
    tag_call,         \* last call of the tag-reader interface (specification SpecTag)
    stroke_block,     \* for each stroke of `strokes`, the cursor at which the header
                      \* of the block it was read from began
    \* render_svg (renderer.py) and draw_stroke_on_page (pdf_export.py)
    svg,              \* the <path> elements of the layer's <g>, in document order
    svg_i,            \* strokes of the layer render_svg has gone through
    shape,            \* the strokes finished on the page's fitz.Shape, in order
    pdf_i,            \* strokes of the layer handed to draw_stroke_on_page
    svg_x_offset,     \* the x_offset argument of render_svg
    \* main (__main__.py)
    args,             \* the argparse namespace: input, output, analyze
    input_files,      \* the expanded list of input files
    main_pc,          \* position of main: idle, expand, mode, analyze, convert, exit
    file_i,           \* input files the loop has gone through
    reports,          \* per input file, what was printed for it
    exit_code,        \* exit status of the process (None while it runs)
    \* export_annotated_pdf (pdf_export.py)
    pdf,              \* the open fitz document: per page, its input and its commits
    page_num,         \* pages the loop has gone through
    export_pc,        \* position of export_annotated_pdf: idle, pages, save, closed
    saved,            \* the pages written by ez_save (None when nothing was saved)
    export_ret,       \* value returned by export_annotated_pdf (None while it runs)
    \* export_all_pdfs (pdf_export.py) and MetadataCache (folders.py)
    items,            \* cache._items: uuid -> DocumentInfo
    todo,             \* documents of cache.documents() not gone through yet
    walk,             \* get_folder_path in progress: doc, parts, current_parent
    work_items,       \* the work items gathered for the pool
    batch_pc,         \* position of export_all_pdfs: idle, gather, walk, pool, done
    running,          \* work items a pool worker is exporting now
    finished          \* work items whose worker has returned

parser_vars == <<data, pos, pc, err, strokes, hdr_start, block_type, block_end, iter,
                 caught, reader_block_end, tag_call, stroke_block>>
render_vars == <<svg, svg_i, shape, pdf_i, svg_x_offset>>
main_vars == <<args, input_files, main_pc, file_i, reports, exit_code>>
export_vars == <<pdf, page_num, export_pc, saved, export_ret>>
batch_vars == <<items, todo, walk, work_items, batch_pc, running, finished>>
app_vars == <<main_vars, export_vars, batch_vars>>

vars == <<parser_vars, render_vars, app_vars>>

----------------------------------------------------------------------------
(* Constants of parser.py *)

HEADER_V6 ==
    << 114, 101, 77, 97, 114, 107, 97, 98, 108, 101, 32,      \* "reMarkable "
       46, 108, 105, 110, 101, 115, 32,                       \* ".lines "
       102, 105, 108, 101, 44, 32,                            \* "file, "
       118, 101, 114, 115, 105, 111, 110, 61, 54,             \* "version=6"
       32, 32, 32, 32, 32, 32, 32, 32, 32, 32 >>              \* ten spaces

Byte1 == 1
Byte4 == 4
Byte8 == 8
Length4 == 12
ID == 15
TagType == {Byte1, Byte4, Byte8, Length4, ID}

LineItem == 5

\* Python's None; an Optional[int] holding n is <<n>>.
None == <<>>

----------------------------------------------------------------------------
(* BinaryReader *)

Ok(p, v) == [err |-> "none", pos |-> p, val |-> v]
Raise(kind, p) == [err |-> kind, pos |-> p, val |-> None]
At(p) == Ok(p, None)

\* data.read(n) returns the bytes that are left (none when the cursor is at or
\* past the end) and advances the cursor by what it returned.
read_bytes(d, s, n) ==
    IF s.err # "none" THEN s
    ELSE IF Len(d) - s.pos >= n
    THEN Ok(s.pos + n, SubSeq(d, s.pos + 1, s.pos + n))
    ELSE Raise("EOFError", IF s.pos >= Len(d) THEN s.pos ELSE Len(d))

\* struct.unpack of the bytes read: "<B", "<H", "<I"; "<f" accepts every 4-byte
\* pattern and is kept as its bit pattern, "<d" every 8-byte pattern, kept as
\* its bytes.
unpack_B(r) == IF r.err # "none" THEN r ELSE Ok(r.pos, r.val[1])
unpack_H(r) == IF r.err # "none" THEN r ELSE Ok(r.pos, r.val[1] + 256 * r.val[2])
unpack_I(r) ==
    IF r.err # "none" THEN r
    ELSE Ok(r.pos, r.val[1] + 256 * r.val[2] + 65536 * r.val[3] + 16777216 * r.val[4])

read_uint8(d, s) ==
    IF s.err # "none" THEN s
    ELSE unpack_B(read_bytes(d, s, 1))
read_uint16(d, s) ==
    IF s.err # "none" THEN s
    ELSE unpack_H(read_bytes(d, s, 2))
read_uint32(d, s) ==
    IF s.err # "none" THEN s
    ELSE unpack_I(read_bytes(d, s, 4))
read_float32(d, s) ==
    IF s.err # "none" THEN s
    ELSE unpack_I(read_bytes(d, s, 4))
read_float64(d, s) ==
    IF s.err # "none" THEN s
    ELSE read_bytes(d, s, 8)

\* while True: byte = read_uint8(); result |= (byte & 0x7F) << shift; ...
RECURSIVE varuint_loop(_, _, _, _)
RECURSIVE varuint_step(_, _, _, _)
varuint_loop(d, s, result, shift) ==
    IF s.err # "none" THEN s
    ELSE varuint_step(d, read_uint8(d, s), result, shift)
\* (byte & 0x7F) << shift
shl(v, shift) == IF v = 0 THEN 0 ELSE v * (2 ^ shift)
varuint_step(d, byte, result, shift) ==
    IF byte.err # "none" THEN byte
    ELSE IF byte.val < 128
    THEN Ok(byte.pos, result + shl(byte.val % 128, shift))
    ELSE varuint_loop(d, byte, result + shl(byte.val % 128, shift), shift + 7)

read_varuint(d, s) ==
    IF s.err # "none" THEN s
    ELSE varuint_loop(d, s, 0, 0)

CrdtId(part1, part2) ==
    IF part2.err # "none" THEN part2 ELSE Ok(part2.pos, <<part1.val, part2.val>>)

read_crdt_id(d, s) ==
    IF s.err # "none" THEN s
    ELSE CrdtId(read_uint8(d, s), read_varuint(d, read_uint8(d, s)))

----------------------------------------------------------------------------
(* TaggedBlockReader *)

\* check_header without the comparison
check_header_unchecked(header) ==
    IF header.err # "none" THEN header ELSE Ok(header.pos, None)

\* `if header != HEADER_V6: raise ValueError`
check_header(header) ==
    IF header.err # "none" THEN header
    ELSE IF header.val # HEADER_V6 THEN Raise("ValueError", header.pos)
    ELSE Ok(header.pos, None)

read_header(d, s) ==
    IF s.err # "none" THEN s
    ELSE check_header(read_bytes(d, s, Len(HEADER_V6)))

\* float('inf') is the record with inf = TRUE.
bytes_remaining(s, be) ==
    IF be = None THEN [inf |-> TRUE, n |-> 0] ELSE [inf |-> FALSE, n |-> be[1] - s.pos]

\* index = tag >> 4; tag_type = TagType(tag & 0xF), a ValueError when the value
\* is not one of the enum
tag_of(tag) ==
    IF tag.err # "none" THEN tag
    ELSE IF tag.val % 16 \notin TagType THEN Raise("ValueError", tag.pos)
    ELSE Ok(tag.pos, <<tag.val \div 16, tag.val % 16>>)

_read_tag(d, s) ==
    IF s.err # "none" THEN s
    ELSE tag_of(read_varuint(d, s))

\* The rewind is inside the mismatch branch only: an exception of _read_tag
\* leaves _expect_tag before `self.stream.seek(pos)` is reached.
expect_match(s, t, expected_index, expected_type) ==
    IF t.err # "none" THEN t
    ELSE IF t.val[1] # expected_index \/ t.val[2] # expected_type
    THEN Raise("ValueError", s.pos)
    ELSE Ok(t.pos, None)

_expect_tag(d, s, expected_index, expected_type) ==
    IF s.err # "none" THEN s
    ELSE expect_match(s, _read_tag(d, s), expected_index, expected_type)

\* val is the boolean returned; the cursor is s.pos on every path, by the early
\* return before any read and by `finally: self.stream.seek(pos)` after one.
check_match(s, be, t, expected_index, expected_type) ==
    IF s.err # "none" THEN s
    ELSE IF ~bytes_remaining(s, be).inf /\ bytes_remaining(s, be).n <= 0
    THEN Ok(s.pos, FALSE)
    ELSE IF t.err # "none" THEN Ok(s.pos, FALSE)
    ELSE Ok(s.pos, t.val[1] = expected_index /\ t.val[2] = expected_type)

\* _check_tag whose seek back is on the path without exception only
_check_tag_no_finally(d, s, be, expected_index, expected_type) ==
    IF _read_tag(d, s).err # "none" THEN Ok(_read_tag(d, s).pos, FALSE)
    ELSE check_match(s, be, _read_tag(d, s), expected_index, expected_type)

_check_tag(d, s, be, expected_index, expected_type) ==
    IF s.err # "none" THEN s
    ELSE check_match(s, be, _read_tag(d, s), expected_index, expected_type)

read_int(d, s, index) ==
    IF s.err # "none" THEN s
    ELSE read_uint32(d, _expect_tag(d, s, index, Byte4))
read_float(d, s, index) ==
    IF s.err # "none" THEN s
    ELSE read_float32(d, _expect_tag(d, s, index, Byte4))
read_double(d, s, index) ==
    IF s.err # "none" THEN s
    ELSE read_float64(d, _expect_tag(d, s, index, Byte8))
read_id(d, s, index) ==
    IF s.err # "none" THEN s
    ELSE read_crdt_id(d, _expect_tag(d, s, index, ID))

\* val is None at EOF inside the length (the only read inside the try), else
\* <<block_type, length>>; an EOFError of the four single-byte reads propagates.
block_header(length, btype) ==
    IF length.err # "none" THEN Ok(length.pos, None)
    ELSE IF btype.err # "none" THEN btype
    ELSE Ok(btype.pos, <<btype.val, length.val>>)

\* read_block_header that leaves the cursor where the header began
read_block_header_in_place(d, s) ==
    IF s.err # "none" THEN s
    ELSE [block_header(read_uint32(d, s),
                       read_uint8(d, read_uint8(d, read_uint8(d, read_uint8(d,
                           read_uint32(d, s))))))
          EXCEPT !.pos = s.pos]

read_block_header(d, s) ==
    IF s.err # "none" THEN s
    ELSE block_header(read_uint32(d, s),
                      read_uint8(d, read_uint8(d, read_uint8(d, read_uint8(d,
                          read_uint32(d, s))))))

read_subblock(d, s, index) ==
    IF s.err # "none" THEN s
    ELSE read_uint32(d, _expect_tag(d, s, index, Length4))

has_subblock(d, s, be, index) ==
    IF s.err # "none" THEN s
    ELSE _check_tag(d, s, be, index, Length4)

----------------------------------------------------------------------------
(* Document parser *)

Point(x, y, speed, width, direction, pressure) ==
    IF pressure.err # "none" THEN pressure
    ELSE Ok(pressure.pos,
            [x |-> x.val, y |-> y.val, speed |-> speed.val, width |-> width.val,
             direction |-> direction.val, pressure |-> pressure.val])

read_point(d, s) ==
    IF s.err # "none" THEN s ELSE
    LET x == read_float32(d, s)
        y == read_float32(d, x)
        speed == read_uint16(d, y)
        width == read_uint16(d, speed)
        direction == read_uint8(d, width)
        pressure == read_uint8(d, direction)
    IN  Point(x, y, speed, width, direction, pressure)

\* [read_point(reader.stream) for _ in range(num_points)]
RECURSIVE read_points(_, _, _, _)
RECURSIVE read_points_step(_, _, _, _)
read_points(d, s, num_points, points) ==
    IF s.err # "none" THEN s
    ELSE IF num_points <= 0 THEN Ok(s.pos, points)
    ELSE read_points_step(d, read_point(d, s), num_points, points)
read_points_step(d, pt, num_points, points) ==
    IF pt.err # "none" THEN pt
    ELSE read_points(d, pt, num_points - 1, Append(points, pt.val))

\* point_size = 14; num_points = points_length // point_size
read_line_points(d, points_length) ==
    IF points_length.err # "none" THEN points_length
    ELSE read_points(d, points_length, points_length.val \div 14, <<>>)

\* Pen(tool_id) and PenColor(color_id) fall back to the raw integer, so pen and
\* color are the integers read.
Stroke(tool_id, color_id, thickness_scale, points, timestamp) ==
    IF timestamp.err # "none" THEN timestamp
    ELSE Ok(timestamp.pos,
            [pen |-> tool_id.val, color |-> color_id.val,
             thickness_scale |-> thickness_scale.val, points |-> points.val])

read_line_data(d, s) ==
    IF s.err # "none" THEN s ELSE
    LET tool_id == read_int(d, s, 1)
        color_id == read_int(d, tool_id, 2)
        thickness_scale == read_double(d, color_id, 3)
        starting_length == read_float(d, thickness_scale, 4)
        points == read_line_points(d, read_subblock(d, starting_length, 5))
        timestamp == read_id(d, points, 6)
    IN  Stroke(tool_id, color_id, thickness_scale, points, timestamp)

\* parse_file, lines 409-413: the scene-item header; val is deleted_length.
read_scene_item(d, s) ==
    IF s.err # "none" THEN s
    ELSE read_int(d, read_id(d, read_id(d, read_id(d, read_id(d, s, 1), 2), 3), 4), 5)

\* `if stroke:` alone
keep_stroke_any(stroke) == TRUE

\* `if stroke and stroke.points`: a Stroke instance is always truthy.
keep_stroke(stroke) == stroke.points # <<>>

\* `if stroke and stroke.points: default_layer.strokes.append(stroke)`: val is
\* the sequence of strokes appended (empty or one stroke).
append_stroke(stroke) ==
    IF stroke.err # "none" THEN stroke
    ELSE IF keep_stroke(stroke.val) THEN Ok(stroke.pos, <<stroke.val>>)
    ELSE Ok(stroke.pos, <<>>)

\* `if item_type == 0x03`
read_item(d, item_type) ==
    IF item_type.err # "none" THEN item_type
    ELSE IF item_type.val # 3 THEN Ok(item_type.pos, <<>>)
    ELSE append_stroke(read_line_data(d, item_type))

\* parse_file, lines 420-427
read_value(d, s, be) ==
    IF s.err # "none" THEN s
    ELSE IF ~has_subblock(d, s, be, 6).val THEN Ok(s.pos, <<>>)
    ELSE read_item(d, read_uint8(d, read_subblock(d, s, 6)))

\* the new strokes put in front of the layer's list
prepend_to_layer(layer, new) == new \o layer

\* default_layer.strokes.append(stroke), for the strokes of one block
append_to_layer(layer, new) == layer \o new

\* `except ValueError`
is_ValueError(kind) == kind = "ValueError"

\* `except Exception` catches both exception kinds the readers raise.
is_Exception(kind) == kind \in {"EOFError", "ValueError"}

----------------------------------------------------------------------------
(* Numbers of the renderer *)

\* A Python float is modelled by the exact fraction it stands for, <<n, d>> in
\* lowest terms with d > 0; the renderer's arithmetic is exact in the model.
RECURSIVE gcd(_, _)
gcd(a, b) == IF b = 0 THEN a ELSE gcd(b, a % b)
abs(n) == IF n < 0 THEN 0 - n ELSE n
Rat(n, d) == << n \div gcd(abs(n), d), d \div gcd(abs(n), d) >>
RatAdd(p, q) == Rat(p[1] * q[2] + q[1] * p[2], p[2] * q[2])
RatMul(p, q) == Rat(p[1] * q[1], p[2] * q[2])
RatDiv(p, q) == Rat(p[1] * q[2], p[2] * q[1])            \* q > 0
RatLess(p, q) == p[1] * q[2] < q[1] * p[2]
RatMax(p, q) == IF RatLess(p, q) THEN q ELSE p

\* num / 2^k in lowest terms
RECURSIVE scale2(_, _)
scale2(num, k) ==
    IF k = 0 THEN <<num, 1>>
    ELSE IF num % 2 = 0 THEN scale2(num \div 2, k - 1)
    ELSE <<num, 2 ^ k>>

\* struct.unpack("<f"): the number whose IEEE-754 single bit pattern is bits
\* (sign bit clear, zero or a normal number).
F32(bits) ==
    IF bits = 0 THEN <<0, 1>>
    ELSE IF bits \div 8388608 >= 150
    THEN <<(8388608 + (bits % 8388608)) * (2 ^ ((bits \div 8388608) - 150)), 1>>
    ELSE scale2(8388608 + (bits % 8388608), 150 - (bits \div 8388608))

\* struct.unpack("<d") of the 8 bytes read: sign bit clear, the 48 low bits of
\* the mantissa zero.
F64(b) ==
    IF 16 * b[8] + (b[7] \div 16) >= 1027
    THEN <<(16 + (b[7] % 16)) * (2 ^ (16 * b[8] + (b[7] \div 16) - 1027)), 1>>
    ELSE scale2(16 + (b[7] % 16), 1027 - (16 * b[8] + (b[7] \div 16)))

\* f"{v:.2f}": v rounded to hundredths (ties to even), as a count of hundredths
round_half_even(fl, rem2, d) ==
    IF rem2 > d THEN fl + 1
    ELSE IF rem2 < d THEN fl
    ELSE IF fl % 2 = 0 THEN fl ELSE fl + 1
fmt2(v) == round_half_even((100 * v[1]) \div v[2], 2 * ((100 * v[1]) % v[2]), v[2])

----------------------------------------------------------------------------
(* constants.py *)

RM_DPI == 227
PDF_DPI == 72
RM_TO_PDF_SCALE == Rat(RM_DPI, PDF_DPI)

Pen == {0, 1, 2, 3, 4, 5, 6, 7, 8, 12, 13, 14, 15, 16, 17, 18, 21, 23}
PenColor == 0..13

PAINTBRUSH == 0
FINELINER == 4
HIGHLIGHTER == 5
ERASER == 6
ERASER_AREA == 8
HIGHLIGHTER_2 == 18
SHADER == 23

\* indexed by PenColor + 1
COLOR_MAP_RGB ==
    << <<0, 0, 0>>, <<125, 125, 125>>, <<255, 255, 255>>, <<255, 235, 59>>,
       <<76, 175, 80>>, <<233, 30, 99>>, <<48, 74, 224>>, <<244, 67, 54>>,
       <<158, 158, 158>>, <<255, 235, 59>>, <<139, 195, 74>>, <<0, 188, 212>>,
       <<156, 39, 176>>, <<255, 193, 7>> >>

\* f"#{r:02x}{g:02x}{b:02x}": the three two-digit fields of the string
COLOR_MAP_HEX == [c \in 1..Len(COLOR_MAP_RGB) |-> <<"#", COLOR_MAP_RGB[c]>>]

\* in tenths
PEN_BASE_WIDTH(pen) ==
    CASE pen \in {0, 12} -> 30
      [] pen \in {1, 14} -> 15
      [] pen \in {2, 15} -> 12
      [] pen \in {3, 16} -> 40
      [] pen \in {4, 17} -> 8
      [] pen \in {5, 18} -> 120
      [] pen \in {6, 8} -> 50
      [] pen \in {7, 13} -> 6
      [] pen = 21 -> 25
      [] pen = 23 -> 80

\* TRANSPARENT_PENS without SHADER
TRANSPARENT_PENS_no_shader == {HIGHLIGHTER, HIGHLIGHTER_2}

TRANSPARENT_PENS == {HIGHLIGHTER, HIGHLIGHTER_2, SHADER}

\* ERASER_PENS without ERASER_AREA
ERASER_PENS_no_area == {ERASER}

ERASER_PENS == {ERASER, ERASER_AREA}

----------------------------------------------------------------------------
(* renderer.py *)

DEFAULT_X_OFFSET == 938

\* x and y of a Point are float32 values, kept as their bit patterns.
tx(x, x_offset) == RatDiv(RatAdd(F32(x), x_offset), RM_TO_PDF_SCALE)
ty(y) == RatDiv(F32(y), RM_TO_PDF_SCALE)
\* the sum of the two values, not halved
mid_no_half(a, b) == RatAdd(a, b)
\* (a + b) / 2
mid(a, b) == RatDiv(RatAdd(a, b), <<2, 1>>)

\* The commands of the path string; the numbers are the formatted ones.
moveto(p, x_offset) == [op |-> "M", args |-> <<fmt2(tx(p.x, x_offset)), fmt2(ty(p.y))>>]
lineto(p, x_offset) == [op |-> "L", args |-> <<fmt2(tx(p.x, x_offset)), fmt2(ty(p.y))>>]
lineto_mid(p0, p1, x_offset) ==
    [op |-> "L", args |-> <<fmt2(mid(tx(p0.x, x_offset), tx(p1.x, x_offset))),
                            fmt2(mid(ty(p0.y), ty(p1.y)))>>]
curveto(p0, p1, x_offset) ==
    [op |-> "Q", args |-> <<fmt2(tx(p0.x, x_offset)), fmt2(ty(p0.y)),
                            fmt2(tx(p1.x, x_offset)), fmt2(ty(p1.y))>>]
curveto_mid(p0, p1, x_offset) ==
    [op |-> "Q", args |-> <<fmt2(tx(p0.x, x_offset)), fmt2(ty(p0.y)),
                            fmt2(mid(tx(p0.x, x_offset), tx(p1.x, x_offset))),
                            fmt2(mid(ty(p0.y), ty(p1.y)))>>]

\* the loop body with every curve ending on the point itself
segment_no_mid(points, x_offset, i) ==
    IF i = 1 THEN lineto_mid(points[i], points[i + 1], x_offset)
    ELSE curveto(points[i], points[i + 1], x_offset)

\* The body of `for i in range(1, len(points))`: p0 = points[i - 1] and
\* p1 = points[i] of the code are points[i] and points[i + 1] here.
segment(points, x_offset, i) ==
    IF i = 1 THEN lineto_mid(points[i], points[i + 1], x_offset)
    ELSE IF i = Len(points) - 1 THEN curveto(points[i], points[i + 1], x_offset)
    ELSE curveto_mid(points[i], points[i + 1], x_offset)

RECURSIVE path_loop(_, _, _, _)
path_loop(points, x_offset, i, path) ==
    IF i > Len(points) - 1 THEN path
    ELSE path_loop(points, x_offset, i + 1, Append(path, segment(points, x_offset, i)))

\* "l 0.1 0.1" is a literal of the code: ten hundredths.
points_to_path(points, x_offset) ==
    IF Len(points) < 1 THEN <<>>
    ELSE IF Len(points) = 1
    THEN << moveto(points[1], x_offset), [op |-> "l", args |-> <<10, 10>>] >>
    ELSE IF Len(points) = 2
    THEN << moveto(points[1], x_offset), lineto(points[2], x_offset) >>
    ELSE path_loop(points, x_offset, 1, << moveto(points[1], x_offset) >>)

\* isinstance(stroke.color, PenColor): Stroke holds the enum member when the
\* integer read is one of its values.
get_stroke_color(stroke) ==
    IF stroke.color \in PenColor THEN COLOR_MAP_HEX[stroke.color + 1]
    ELSE <<"#", <<0, 0, 0>>>>

RECURSIVE sum_width(_, _)
sum_width(points, n) == IF n = 0 THEN 0 ELSE sum_width(points, n - 1) + points[n].width

base_width(pen) == IF pen \in Pen THEN Rat(PEN_BASE_WIDTH(pen), 10) ELSE <<1, 1>>

\* the fallback of get_stroke_width, lines 111-116
pen_width(stroke) ==
    RatDiv(RatMul(base_width(stroke.pen), F64(stroke.thickness_scale)), RM_TO_PDF_SCALE)

\* max(0.5, avg_width / RM_TO_PDF_SCALE / 4.0)
avg_width(points) ==
    RatMax(<<1, 2>>,
           RatDiv(RatDiv(Rat(sum_width(points, Len(points)), Len(points)), RM_TO_PDF_SCALE),
                  <<4, 1>>))

get_stroke_width(stroke) ==
    IF stroke.points # <<>> THEN avg_width(stroke.points) ELSE pen_width(stroke)

\* get_stroke_opacity returning 1.0 for every pen
get_stroke_opacity_opaque(stroke) == <<1, 1>>

get_stroke_opacity(stroke) ==
    IF stroke.pen \in Pen /\ stroke.pen \in TRANSPARENT_PENS THEN <<2, 5>> ELSE <<1, 1>>

\* is_eraser returning False for every pen
is_eraser_never(stroke) == FALSE

is_eraser(stroke) == IF stroke.pen \in Pen THEN stroke.pen \in ERASER_PENS ELSE FALSE

\* `if opacity < 1.0: path.set("opacity", f"{opacity:.2f}")`: None when the
\* attribute is not set.
opacity_attribute(opacity) == IF RatLess(opacity, <<1, 1>>) THEN <<fmt2(opacity)>> ELSE None

\* The body of `for stroke in layer.strokes` of render_svg: the <path> elements
\* it adds for stroke number i of the layer (none or one).  `of` is not an
\* attribute: it records which stroke the element was made from.
render_stroke(i, stroke, x_offset) ==
    IF is_eraser(stroke) THEN <<>>
    ELSE IF stroke.points = <<>> THEN <<>>
    ELSE << [of |-> i,
             d |-> points_to_path(stroke.points, x_offset),
             stroke |-> get_stroke_color(stroke),
             stroke_width |-> fmt2(get_stroke_width(stroke)),
             opacity |-> opacity_attribute(get_stroke_opacity(stroke))] >>

----------------------------------------------------------------------------
(* pdf_export.py: drawing *)

get_color(stroke) ==
    IF stroke.color \in PenColor
    THEN [k \in 1..3 |-> Rat(COLOR_MAP_RGB[stroke.color + 1][k], 255)]
    ELSE [k \in 1..3 |-> <<0, 1>>]

\* pdf_export.py has its own is_eraser
pdf_is_eraser(stroke) == IF stroke.pen \in Pen THEN stroke.pen \in ERASER_PENS ELSE FALSE

is_highlighter(stroke) ==
    IF stroke.pen \in Pen THEN stroke.pen \in TRANSPARENT_PENS ELSE FALSE

\* fitz.Point((p.x + x_offset) / RM_TO_PDF_SCALE, p.y / RM_TO_PDF_SCALE)
pdf_point(p, x_offset) == <<tx(p.x, x_offset), ty(p.y)>>

\* x_offset = (page_width / 2) * RM_TO_PDF_SCALE
page_x_offset(page_width) == RatMul(Rat(page_width, 2), RM_TO_PDF_SCALE)

\* avg_width = sum(p.width ...) / len(stroke.points);
\* width = max(0.5, avg_width / RM_TO_PDF_SCALE / 4.0)
pdf_width(points) ==
    RatMax(<<1, 2>>,
           RatDiv(RatDiv(Rat(sum_width(points, Len(points)), Len(points)), RM_TO_PDF_SCALE),
                  <<4, 1>>))

\* shape.draw_line for every pair of neighbours
draw_lines(points, x_offset) ==
    [i \in 1..(Len(points) - 1) |->
        <<pdf_point(points[i], x_offset), pdf_point(points[i + 1], x_offset)>>]

\* What draw_stroke_on_page finishes on the shape for stroke number i (nothing
\* or one styled run of lines).
draw_stroke_on_page(i, stroke, page_width) ==
    IF pdf_is_eraser(stroke) \/ Len(stroke.points) < 2 THEN <<>>
    ELSE << [of |-> i,
             lines |-> draw_lines(stroke.points, page_x_offset(page_width)),
             color |-> get_color(stroke),
             width |-> pdf_width(stroke.points),
             stroke_opacity |-> IF is_highlighter(stroke) THEN <<2, 5>> ELSE <<1, 1>>] >>

----------------------------------------------------------------------------
(* Input files: byte sequences assembled from encoded blocks *)

MaxBlocks == 2      \* blocks per input file
MaxPoints == 2      \* points per well-formed stroke
MaxStream == 3      \* bytes per stream handed to the tag reader
PageWidth == 595    \* page.rect.width of the page drawn on

U32(n) == << n % 256, (n \div 256) % 256, (n \div 65536) % 256, n \div 16777216 >>

Block(btype, payload) == U32(Len(payload)) \o <<0, 1, 1, btype>> \o payload

IdField(i) == << 16 * i + ID, 1, 10 + i >>
IntField(i, v) == << 16 * i + Byte4 >> \o U32(v)
DoubleField(i) == << 16 * i + Byte8, 0, 0, 0, 0, 0, 0, 0, 64 >>      \* 2.0
SubblockField(i, n) == << 16 * i + Length4 >> \o U32(n)

PointBytes(k) == << 0, 0, k, 66,  0, 0, 2 * k, 66,  3, 0,  16, 0,  5, 9 >>

RECURSIVE PointsBytes(_)
PointsBytes(n) == IF n = 0 THEN <<>> ELSE PointsBytes(n - 1) \o PointBytes(n)

SceneItemBytes(deleted_length) ==
    IdField(1) \o IdField(2) \o IdField(3) \o IdField(4) \o IntField(5, deleted_length)

LineDataBytes(pen, declared, present) ==
    IntField(1, pen) \o IntField(2, 0) \o DoubleField(3) \o IntField(4, 0)
    \o SubblockField(5, 14 * declared) \o PointsBytes(present)

ValueBytes(item_type, body) == SubblockField(6, 1 + Len(body)) \o <<item_type>> \o body

GoodLine(pen, n) ==
    Block(LineItem, SceneItemBytes(0)
                    \o ValueBytes(3, LineDataBytes(pen, n, n) \o IdField(6)))

RECURSIVE Zeros(_)
Zeros(n) == IF n = 0 THEN <<>> ELSE Zeros(n - 1) \o <<0>>

ValueLookalike ==
    <<108, 0, 0, 0,  0, 3, 20, 10>>
    \o <<0, 0, 0>> \o IntField(2, 0) \o DoubleField(3) \o IntField(4, 0)
    \o SubblockField(5, 14) \o PointsBytes(1) \o IdField(6) \o Zeros(64)

\* A LineItem whose points subblock declares two points while the block ends
\* after the x and y of the second; then a block of type 1 whose header and
\* first payload byte read as the rest of that point and the timestamp.
PointsPastEnd ==
    Block(LineItem, SceneItemBytes(0)
                    \o ValueBytes(3, LineDataBytes(4, 2, 1) \o <<0, 0, 2, 66,  0, 0, 4, 66>>))
    \o U32(2) \o <<0, 1, 111, 1>> \o <<16, 0>>

BlockTemplates ==
    { GoodLine(4, n) : n \in 0..MaxPoints }
    \cup {
      \* tombstones: alone, followed by its old value, followed by bytes that
      \* themselves encode a LineItem block
      Block(LineItem, SceneItemBytes(1)),
      Block(LineItem, SceneItemBytes(1)
                      \o ValueBytes(3, LineDataBytes(5, 1, 1) \o IdField(6))),
      Block(LineItem, SceneItemBytes(1) \o GoodLine(4, 1)),
      \* blocks of other types
      Block(10, <<1, 2, 3>>),
      Block(99, <<7>>),
      Block(10, Zeros(108)),
      \* malformed LineItem bodies
      Block(LineItem, IdField(1) \o IdField(3) \o IdField(4)),           \* tag mismatch
      Block(LineItem, IdField(1) \o <<35, 1, 1>>),                       \* tag type 3
      Block(LineItem, SceneItemBytes(0)
                      \o ValueBytes(3, LineDataBytes(4, 2, 1))),         \* points overrun
      Block(LineItem, SceneItemBytes(0)),                                \* no value subblock
      Block(LineItem, SceneItemBytes(0) \o ValueBytes(2, <<>>)),         \* item_type 2
      \* a block of type 10 whose bytes, from its length field on, read as a
      \* value subblock: tag 0x6C, length 0, item_type 3, line data
      ValueLookalike,
      PointsPastEnd
    }

RECURSIVE BlockSeqs(_)
BlockSeqs(n) ==
    IF n = 0 THEN { <<>> }
    ELSE BlockSeqs(n - 1) \cup { s \o b : s \in BlockSeqs(n - 1), b \in BlockTemplates }

\* a block header cut after k bytes, k < 8
PartialHeader(k) == SubSeq(U32(5) \o <<0, 1, 1, LineItem>>, 1, k)

GoodHeaderFiles == { HEADER_V6 \o s \o PartialHeader(k) : s \in BlockSeqs(MaxBlocks), k \in 0..7 }

BadHeaderFiles ==
    { Zeros(Len(HEADER_V6)) \o GoodLine(4, 1),
      Zeros(Len(HEADER_V6) + 1),
      SubSeq(HEADER_V6, 1, Len(HEADER_V6) - 1) \o <<33>> \o GoodLine(4, 1),
      SubSeq(HEADER_V6, 1, 10),
      SubSeq(HEADER_V6, 1, Len(HEADER_V6) - 1),
      <<>> }

Files == GoodHeaderFiles \cup BadHeaderFiles

----------------------------------------------------------------------------
(* parse_file as a state machine *)

NoCall == [op |-> "none", index |-> 0, type |-> 0, pos0 |-> 0, ret |-> FALSE, exc |-> "none"]

\* Before render_svg, draw_stroke_on_page, main, export_annotated_pdf and
\* export_all_pdfs are called.
RenderIdle ==
    /\ svg = <<>> /\ svg_i = 0 /\ shape = <<>> /\ pdf_i = 0
    /\ svg_x_offset = <<DEFAULT_X_OFFSET, 1>>
MainIdle ==
    /\ args = None /\ input_files = <<>> /\ main_pc = "idle"
    /\ file_i = 0 /\ reports = <<>> /\ exit_code = None
ExportIdle ==
    pdf = <<>> /\ page_num = 0 /\ export_pc = "idle" /\ saved = None /\ export_ret = None
BatchIdle ==
    /\ items = <<>> /\ todo = <<>> /\ walk = None /\ work_items = <<>>
    /\ batch_pc = "idle" /\ running = {} /\ finished = {}

Init ==
    /\ data \in Files
    /\ pos = 0
    /\ pc = "start"
    /\ err = "none"
    /\ strokes = <<>>
    /\ hdr_start = 0
    /\ block_type = 0
    /\ block_end = 0
    /\ iter = 0
    /\ caught = "none"
    /\ reader_block_end = None
    /\ tag_call = NoCall
    /\ stroke_block = <<>>
    /\ RenderIdle /\ MainIdle /\ ExportIdle /\ BatchIdle

\* reader.read_header()
ReadHeader ==
    /\ pc = "start"
    /\ \E r \in {read_header(data, At(pos))} :
           /\ pos' = r.pos
           /\ pc' = IF r.err # "none" THEN "failed" ELSE "loop"
           /\ err' = r.err
    /\ UNCHANGED <<stroke_block, render_vars, app_vars>>
    /\ UNCHANGED <<data, strokes, hdr_start, block_type, block_end, iter, caught,
                   reader_block_end, tag_call>>

\* header = reader.read_block_header(); block_start, block_end
ReadBlockHeader ==
    /\ pc = "loop"
    /\ \E header \in {read_block_header(data, At(pos))} :
           /\ pos' = header.pos
           /\ hdr_start' = pos
           /\ caught' = "none"
           /\ IF header.err # "none"
              THEN /\ pc' = "failed"
                   /\ err' = header.err
                   /\ UNCHANGED <<block_type, block_end, iter>>
              ELSE IF header.val = None
              THEN /\ pc' = "done"
                   /\ UNCHANGED <<err, block_type, block_end, iter>>
              ELSE /\ block_type' = header.val[1]
                   /\ block_end' = header.pos + header.val[2]
                   /\ iter' = iter + 1
                   /\ pc' = IF header.val[1] = LineItem THEN "envelope" ELSE "skip"
                   /\ UNCHANGED err
    /\ UNCHANGED <<stroke_block, render_vars, app_vars>>
    /\ UNCHANGED <<data, strokes, reader_block_end, tag_call>>

\* block_type != LineItem: reader.stream.seek(block_end)
SkipBlock ==
    /\ pc = "skip"
    /\ pos' = block_end
    /\ pc' = "loop"
    /\ UNCHANGED <<stroke_block, render_vars, app_vars>>
    /\ UNCHANGED <<data, err, strokes, hdr_start, block_type, block_end, iter, caught,
                   reader_block_end, tag_call>>

\* the scene-item header of a LineItem; `continue` on a tombstone goes back to
\* the loop head without the seek at the end of the loop body
ReadSceneItem ==
    /\ pc = "envelope"
    /\ \E r \in {read_scene_item(data, At(pos))} :
           IF r.err # "none"
           THEN IF is_Exception(r.err)
                THEN /\ caught' = r.err
                     /\ pos' = block_end
                     /\ pc' = "loop"
                     /\ UNCHANGED err
                ELSE /\ pos' = r.pos
                     /\ pc' = "failed"
                     /\ err' = r.err
                     /\ UNCHANGED caught
           ELSE /\ pos' = r.pos
                /\ pc' = IF r.val > 0 THEN "loop" ELSE "value"
                /\ UNCHANGED <<err, caught>>
    /\ UNCHANGED <<stroke_block, render_vars, app_vars>>
    /\ UNCHANGED <<data, strokes, hdr_start, block_type, block_end, iter,
                   reader_block_end, tag_call>>

\* the value subblock of a live LineItem, then reader.stream.seek(block_end)
ReadValue ==
    /\ pc = "value"
    /\ \E r \in {read_value(data, At(pos), reader_block_end)} :
           IF r.err # "none"
           THEN IF is_Exception(r.err)
                THEN /\ caught' = r.err
                     /\ pos' = block_end
                     /\ pc' = "loop"
                     /\ UNCHANGED <<err, strokes, stroke_block>>
                ELSE /\ pos' = r.pos
                     /\ pc' = "failed"
                     /\ err' = r.err
                     /\ UNCHANGED <<caught, strokes, stroke_block>>
           ELSE /\ strokes' = append_to_layer(strokes, r.val)
                /\ stroke_block' = append_to_layer(stroke_block,
                                                    [i \in 1..Len(r.val) |-> hdr_start])
                /\ pos' = block_end
                /\ pc' = "loop"
                /\ UNCHANGED <<err, caught>>
    /\ UNCHANGED <<render_vars, app_vars>>
    /\ UNCHANGED <<data, hdr_start, block_type, block_end, iter, reader_block_end, tag_call>>

\* One pass of `for stroke in layer.strokes` of render_svg over the Document
\* parse_file returned, with the x_offset render_svg was called with.
RenderSvgStroke ==
    /\ pc = "done"
    /\ svg_i < Len(strokes)
    /\ svg_i' = svg_i + 1
    /\ svg' = svg \o render_stroke(svg_i + 1, strokes[svg_i + 1], svg_x_offset)
    /\ UNCHANGED <<parser_vars, shape, pdf_i, svg_x_offset, app_vars>>

\* One pass of `for stroke in layer.strokes` of export_annotated_pdf over the
\* same Document: draw_stroke_on_page(shape, stroke, page_width).
DrawStrokeOnPage ==
    /\ pc = "done"
    /\ pdf_i < Len(strokes)
    /\ pdf_i' = pdf_i + 1
    /\ shape' = shape \o draw_stroke_on_page(pdf_i + 1, strokes[pdf_i + 1], PageWidth)
    /\ UNCHANGED <<parser_vars, svg, svg_i, svg_x_offset, app_vars>>

Next ==
    \/ ReadHeader \/ ReadBlockHeader \/ SkipBlock \/ ReadSceneItem \/ ReadValue
    \/ RenderSvgStroke \/ DrawStrokeOnPage

Spec == Init /\ [][Next]_vars

\* A step of Next can be taken: parse_file has not ended, or a renderer has
\* strokes left.  Every action is total on its guard, so this is
\* ENABLED <<Next>>_vars.
CanStep ==
    \/ pc \in {"start", "loop", "skip", "envelope", "value"}
    \/ pc = "done" /\ (svg_i < Len(strokes) \/ pdf_i < Len(strokes))

\* parse_file and the renderers are sequential code: a step that can be taken
\* is taken.  This is WF_vars(Next) with CanStep for ENABLED <<Next>>_vars.
SpecFair == Spec /\ ([]<>(~CanStep) \/ []<><<Next>>_vars)

----------------------------------------------------------------------------
(* The renderers on their own: any Document *)

MaxStrokes == 2       \* strokes per Document
MaxPathPoints == 4    \* points per stroke

\* float32 bit patterns of 0.0, 100.0, 200.0, 300.0, 400.0 and of
\* 0.0, 200.0, 400.0, 600.0, 800.0
XBits == <<0, 1120403456, 1128792064, 1133903872, 1137180672>>
YBits == <<0, 1128792064, 1137180672, 1142292480, 1145569280>>

\* point number k of a stroke; its width is w + step * (k - 1)
RenderPoint(k, w, step) ==
    [x |-> XBits[((k - 1) % 5) + 1], y |-> YBits[((k - 1) % 5) + 1], speed |-> 3,
     width |-> w + step * (k - 1), direction |-> 5, pressure |-> 9]

\* thickness_scale is 2.0
RenderStroke(pen, color, n, w, step) ==
    [pen |-> pen, color |-> color, thickness_scale |-> <<0, 0, 0, 0, 0, 0, 0, 64>>,
     points |-> [k \in 1..n |-> RenderPoint(k, w, step)]]

RenderPens == {FINELINER, HIGHLIGHTER, ERASER, ERASER_AREA, HIGHLIGHTER_2, SHADER, 99}

RenderStrokes ==
    { RenderStroke(pen, 0, 2, 16, 0) : pen \in RenderPens }
    \cup { RenderStroke(FINELINER, 0, n, 16, 1) : n \in 0..MaxPathPoints }
    \cup { RenderStroke(pen, 0, n, 0, 0) : pen \in {FINELINER, HIGHLIGHTER, 99}, n \in 1..2 }
    \cup { RenderStroke(FINELINER, c, 2, 1, 0) : c \in {6, 99} }
    \cup { RenderStroke(pen, 0, 1, 16, 0) : pen \in {ERASER, SHADER} }

\* The x_offset render_svg is called with: its default (__main__.py:92), and
\* (pdf_width / 2) * RM_TO_PDF_SCALE for a PDF 595 points wide (export.py:121).
XOffsets == { <<DEFAULT_X_OFFSET, 1>>, page_x_offset(595) }

RECURSIVE Documents(_)
Documents(n) ==
    IF n = 0 THEN { <<>> }
    ELSE Documents(n - 1)
         \cup { Append(doc, s) : doc \in Documents(n - 1), s \in RenderStrokes }

\* parse_file has returned a Document
InitRender ==
    /\ data = <<>>
    /\ pos = 0
    /\ pc = "done"
    /\ err = "none"
    /\ strokes \in Documents(MaxStrokes)
    /\ hdr_start = 0
    /\ block_type = 0
    /\ block_end = 0
    /\ iter = 0
    /\ caught = "none"
    /\ reader_block_end = None
    /\ tag_call = NoCall
    /\ stroke_block = <<>>
    /\ svg = <<>> /\ svg_i = 0 /\ shape = <<>> /\ pdf_i = 0
    /\ svg_x_offset \in XOffsets
    /\ MainIdle /\ ExportIdle /\ BatchIdle

NextRender == RenderSvgStroke \/ DrawStrokeOnPage

SpecRender == InitRender /\ [][NextRender]_vars

----------------------------------------------------------------------------
(* The tag reader on its own: any stream, any cursor *)

TagBytes == {0, 20, 31, 99, 108, 128, 236}
ExpectedTags == { <<6, Length4>>, <<1, ID>>, <<1, Byte4>> }

RECURSIVE Streams(_)
Streams(n) ==
    IF n = 0 THEN { <<>> }
    ELSE Streams(n - 1) \cup { Append(s, b) : s \in Streams(n - 1), b \in TagBytes }

InitTag ==
    /\ data \in Streams(MaxStream)
    /\ pos \in 0..Len(data)
    /\ pc = "tag"
    /\ err = "none"
    /\ strokes = <<>>
    /\ hdr_start = 0
    /\ block_type = 0
    /\ block_end = 0
    /\ iter = 0
    /\ caught = "none"
    /\ reader_block_end = None
    /\ tag_call = NoCall
    /\ stroke_block = <<>>
    /\ RenderIdle /\ MainIdle /\ ExportIdle /\ BatchIdle

CheckTag ==
    /\ pc = "tag"
    /\ \E e \in ExpectedTags :
       \E r \in {_check_tag(data, At(pos), reader_block_end, e[1], e[2])} :
           /\ pos' = r.pos
           /\ tag_call' = [op |-> "_check_tag", index |-> e[1], type |-> e[2],
                           pos0 |-> pos, ret |-> r.val, exc |-> "none"]
    /\ UNCHANGED <<stroke_block, render_vars, app_vars>>
    /\ UNCHANGED <<data, pc, err, strokes, hdr_start, block_type, block_end, iter,
                   caught, reader_block_end>>

HasSubblock ==
    /\ pc = "tag"
    /\ \E e \in ExpectedTags :
       \E r \in {has_subblock(data, At(pos), reader_block_end, e[1])} :
           /\ pos' = r.pos
           /\ tag_call' = [op |-> "has_subblock", index |-> e[1], type |-> Length4,
                           pos0 |-> pos, ret |-> r.val, exc |-> "none"]
    /\ UNCHANGED <<stroke_block, render_vars, app_vars>>
    /\ UNCHANGED <<data, pc, err, strokes, hdr_start, block_type, block_end, iter,
                   caught, reader_block_end>>

ExpectTag ==
    /\ pc = "tag"
    /\ \E e \in ExpectedTags :
       \E r \in {_expect_tag(data, At(pos), e[1], e[2])} :
           /\ pos' = r.pos
           /\ tag_call' = [op |-> "_expect_tag", index |-> e[1], type |-> e[2],
                           pos0 |-> pos, ret |-> (r.err = "none"), exc |-> r.err]
    /\ UNCHANGED <<stroke_block, render_vars, app_vars>>
    /\ UNCHANGED <<data, pc, err, strokes, hdr_start, block_type, block_end, iter,
                   caught, reader_block_end>>

NextTag == CheckTag \/ HasSubblock \/ ExpectTag

SpecTag == InitTag /\ [][NextTag]_vars

----------------------------------------------------------------------------
(* read_varuint on its own: long runs of continuation bytes *)

MaxContinuation == 12   \* continuation bytes in front of the last byte

\* first, then k - 1 bytes 0x80: k bytes with the continuation bit set
Continuation(first, k) == IF k = 0 THEN <<>> ELSE <<first>> \o [i \in 1..(k - 1) |-> 128]

\* The run is followed by nothing (the stream ends inside the number), by a
\* byte with the continuation bit clear, or by that byte and one more.  The
\* payloads are kept below 2^31.
VaruintStreams ==
    { Continuation(first, k) \o last :
        k \in 0..MaxContinuation,
        first \in {128, 129, 255},
        last \in { <<>>, <<0>>, <<0, 99>>, <<1>> } } \ 
    { Continuation(first, k) \o <<1>> : k \in 4..MaxContinuation, first \in {128, 129, 255} }

InitVaruint ==
    /\ data \in VaruintStreams
    /\ pos \in 0..Len(data)
    /\ pc = "varuint"
    /\ err = "none"
    /\ strokes = <<>>
    /\ hdr_start = 0
    /\ block_type = 0
    /\ block_end = 0
    /\ iter = 0
    /\ caught = "none"
    /\ reader_block_end = None
    /\ tag_call = NoCall
    /\ stroke_block = <<>>
    /\ RenderIdle /\ MainIdle /\ ExportIdle /\ BatchIdle

\* one call of read_varuint at the cursor; the value is kept in index
ReadVaruint ==
    /\ pc = "varuint"
    /\ tag_call = NoCall
    /\ \E r \in {read_varuint(data, At(pos))} :
           /\ pos' = r.pos
           /\ tag_call' = [op |-> "read_varuint",
                           index |-> IF r.err = "none" THEN r.val ELSE 0,
                           type |-> 0, pos0 |-> pos, ret |-> (r.err = "none"),
                           exc |-> r.err]
    /\ UNCHANGED <<stroke_block, render_vars, app_vars>>
    /\ UNCHANGED <<data, pc, err, strokes, hdr_start, block_type, block_end, iter,
                   caught, reader_block_end>>

NextVaruint == ReadVaruint

SpecVaruint == InitVaruint /\ [][NextVaruint]_vars

----------------------------------------------------------------------------
(* __main__.py: main *)

MaxArgs == 2        \* input arguments on the command line
MaxMatches == 2     \* files a glob pattern expands to

\* An input file is what converting it does: parse_file and render_to_file
\* succeed ("ok"), parse_file raises ("ValueError"), or render_to_file cannot
\* write its output ("OSError").
FileKinds == {"ok", "ValueError", "OSError"}

RECURSIVE FileLists(_)
FileLists(n) ==
    IF n = 0 THEN { <<>> }
    ELSE FileLists(n - 1) \cup { Append(fs, f) : fs \in FileLists(n - 1), f \in FileKinds }

\* One element of args.input: a path that exists, or a pattern with the files
\* Path(".").glob gives for it (possibly none).
InputArgs ==
    { [exists |-> TRUE, matches |-> <<f>>] : f \in FileKinds }
    \cup { [exists |-> FALSE, matches |-> fs] : fs \in FileLists(MaxMatches) }

RECURSIVE ArgLists(_)
ArgLists(n) ==
    IF n = 0 THEN { <<>> }
    ELSE ArgLists(n - 1) \cup { Append(as, a) : as \in ArgLists(n - 1), a \in InputArgs }

\* args.output: not given, a path that can be made a directory, or a path
\* that is an existing regular file.
OutputArgs == {"none", "dir", "file"}

\* lines 43-54: the expanded list of input files
RECURSIVE expand_inputs(_)
expand_inputs(input) ==
    IF input = <<>> THEN <<>>
    ELSE IF Head(input).exists THEN Head(input).matches \o expand_inputs(Tail(input))
    ELSE IF Head(input).matches # <<>> THEN Head(input).matches \o expand_inputs(Tail(input))
    ELSE expand_inputs(Tail(input))

\* len(input_files) > 0 in place of len(input_files) > 1
multiple_inputs_any(files) == Len(files) > 0

\* multiple_inputs = len(input_files) > 1
multiple_inputs(files) == Len(files) > 1

\* output_dir.mkdir(parents=True, exist_ok=True) raises FileExistsError when
\* the path is a regular file.
mkdir_raises(files, output) == multiple_inputs(files) /\ output = "file"

\* what print reports for a converted file
report(f) == IF f = "ok" THEN "OK" ELSE "FAILED"

\* nargs="+": at least one input argument
InitMain ==
    /\ data = <<>> /\ pos = 0 /\ pc = "idle" /\ err = "none" /\ strokes = <<>>
    /\ hdr_start = 0 /\ block_type = 0 /\ block_end = 0 /\ iter = 0
    /\ caught = "none" /\ reader_block_end = None /\ tag_call = NoCall
    /\ stroke_block = <<>>
    /\ RenderIdle /\ ExportIdle /\ BatchIdle
    /\ args \in { [input |-> i, output |-> o, analyze |-> a] :
                    i \in ArgLists(MaxArgs) \ { <<>> }, o \in OutputArgs, a \in BOOLEAN }
    /\ input_files = <<>>
    /\ main_pc = "expand"
    /\ file_i = 0
    /\ reports = <<>>
    /\ exit_code = None

\* lines 43-58: expand the patterns; sys.exit(1) when no file was found
ExpandInputs ==
    /\ main_pc = "expand"
    /\ input_files' = expand_inputs(args.input)
    /\ IF expand_inputs(args.input) = <<>>
       THEN main_pc' = "exit" /\ exit_code' = <<1>>
       ELSE main_pc' = "mode" /\ UNCHANGED exit_code
    /\ UNCHANGED <<args, file_i, reports>>
    /\ UNCHANGED <<parser_vars, render_vars, export_vars, batch_vars>>

\* lines 60-78: analyze mode or convert mode; in convert mode with several
\* inputs the output directory is made, outside any try
ChooseMode ==
    /\ main_pc = "mode"
    /\ IF args.analyze
       THEN main_pc' = "analyze" /\ UNCHANGED exit_code
       ELSE IF mkdir_raises(input_files, args.output)
       THEN main_pc' = "exit" /\ exit_code' = <<1>>
       ELSE main_pc' = "convert" /\ UNCHANGED exit_code
    /\ UNCHANGED <<args, input_files, file_i, reports>>
    /\ UNCHANGED <<parser_vars, render_vars, export_vars, batch_vars>>

\* lines 62-65: analyze_file(input_file), no try around it: an exception of
\* parse_file ends the process with status 1
AnalyzeFile ==
    /\ main_pc = "analyze"
    /\ file_i < Len(input_files)
    /\ IF input_files[file_i + 1] = "ValueError"
       THEN /\ main_pc' = "exit"
            /\ exit_code' = <<1>>
            /\ UNCHANGED <<file_i, reports>>
       ELSE /\ file_i' = file_i + 1
            /\ reports' = Append(reports, "analyzed")
            /\ UNCHANGED <<main_pc, exit_code>>
    /\ UNCHANGED <<args, input_files>>
    /\ UNCHANGED <<parser_vars, render_vars, export_vars, batch_vars>>

\* lines 80-99: one pass of the convert loop
ConvertFile ==
    /\ main_pc = "convert"
    /\ file_i < Len(input_files)
    /\ reports' = Append(reports, report(input_files[file_i + 1]))
    /\ IF input_files[file_i + 1] # "ok" /\ ~multiple_inputs(input_files)
       THEN /\ main_pc' = "exit"
            /\ exit_code' = <<1>>
            /\ UNCHANGED file_i
       ELSE /\ file_i' = file_i + 1
            /\ UNCHANGED <<main_pc, exit_code>>
    /\ UNCHANGED <<args, input_files>>
    /\ UNCHANGED <<parser_vars, render_vars, export_vars, batch_vars>>

\* the loop is over: main returns and the process ends with status 0
MainReturns ==
    /\ main_pc \in {"analyze", "convert"}
    /\ file_i = Len(input_files)
    /\ main_pc' = "exit"
    /\ exit_code' = <<0>>
    /\ UNCHANGED <<args, input_files, file_i, reports>>
    /\ UNCHANGED <<parser_vars, render_vars, export_vars, batch_vars>>

NextMain == ExpandInputs \/ ChooseMode \/ AnalyzeFile \/ ConvertFile \/ MainReturns

SpecMain == InitMain /\ [][NextMain]_vars

----------------------------------------------------------------------------
(* pdf_export.py: export_annotated_pdf *)

MaxPages == 3       \* pages of the PDF

\* What happens on a page: it has no annotation file ("plain"), parse_file
\* raises on its file ("unparsable"), its strokes are drawn and committed
\* ("ok"), draw_stroke_on_page raises ("draw_fails"), or shape.commit()
\* raises ("commit_fails").
PageKinds == {"plain", "unparsable", "ok", "draw_fails", "commit_fails"}

RECURSIVE PageLists(_)
PageLists(n) ==
    IF n = 0 THEN { <<>> }
    ELSE PageLists(n - 1)
         \cup { Append(ps, [kind |-> k, commits |-> 0]) : ps \in PageLists(n - 1),
                                                          k \in PageKinds }

\* found: pdf_path.exists(); annotated: rm_dir.exists(); writable: mkdir and
\* ez_save succeed; pages: the pages of the PDF, each with the number of
\* shapes committed to it.
InitExport ==
    /\ data = <<>> /\ pos = 0 /\ pc = "idle" /\ err = "none" /\ strokes = <<>>
    /\ hdr_start = 0 /\ block_type = 0 /\ block_end = 0 /\ iter = 0
    /\ caught = "none" /\ reader_block_end = None /\ tag_call = NoCall
    /\ stroke_block = <<>>
    /\ RenderIdle /\ MainIdle /\ BatchIdle
    /\ pdf \in { [found |-> f, annotated |-> a, writable |-> w, pages |-> ps] :
                   f \in BOOLEAN, a \in BOOLEAN, w \in BOOLEAN, ps \in PageLists(MaxPages) }
    /\ page_num = 0
    /\ export_pc = "start"
    /\ saved = None
    /\ export_ret = None

\* lines 93-118: return False without the PDF or without the annotation
\* directory, else fitz.open
OpenPdf ==
    /\ export_pc = "start"
    /\ IF ~pdf.found \/ ~pdf.annotated
       THEN export_pc' = "returned" /\ export_ret' = <<FALSE>>
       ELSE export_pc' = "pages" /\ UNCHANGED export_ret
    /\ UNCHANGED <<pdf, page_num, saved>>
    /\ UNCHANGED <<parser_vars, render_vars, main_vars, batch_vars>>

\* shape.commit() on page number n
commit(pages, n) == [pages EXCEPT ![n].commits = @ + 1]

\* the shape is never committed
commit_never(pages, n) == pages

\* lines 121-148: one pass of the page loop.  An exception of
\* draw_stroke_on_page or of shape.commit() is caught by the `except
\* Exception` at line 154, outside the loop: the function returns False,
\* after `finally: pdf.close()`, without ez_save.
ProcessPage ==
    /\ export_pc = "pages"
    /\ page_num < Len(pdf.pages)
    /\ IF pdf.pages[page_num + 1].kind \in {"plain", "unparsable"}
       THEN /\ page_num' = page_num + 1
            /\ UNCHANGED <<pdf, export_pc, export_ret>>
       ELSE IF pdf.pages[page_num + 1].kind = "ok"
       THEN /\ pdf' = [pdf EXCEPT !.pages = commit(pdf.pages, page_num + 1)]
            /\ page_num' = page_num + 1
            /\ UNCHANGED <<export_pc, export_ret>>
       ELSE /\ export_pc' = "returned"
            /\ export_ret' = <<FALSE>>
            /\ UNCHANGED <<pdf, page_num>>
    /\ UNCHANGED saved
    /\ UNCHANGED <<parser_vars, render_vars, main_vars, batch_vars>>

\* lines 150-164: pdf.ez_save(output_path), then pdf.close()
SavePdf ==
    /\ export_pc = "pages"
    /\ page_num = Len(pdf.pages)
    /\ export_pc' = "returned"
    /\ IF pdf.writable
       THEN /\ saved' = <<[n \in 1..Len(pdf.pages) |-> pdf.pages[n].commits]>>
            /\ export_ret' = <<TRUE>>
       ELSE /\ export_ret' = <<FALSE>>
            /\ UNCHANGED saved
    /\ UNCHANGED <<pdf, page_num>>
    /\ UNCHANGED <<parser_vars, render_vars, main_vars, batch_vars>>

NextExport == OpenPdf \/ ProcessPage \/ SavePdf

SpecExport == InitExport /\ [][NextExport]_vars

----------------------------------------------------------------------------
(* folders.py: slugify and MetadataCache; pdf_export.py: export_all_pdfs *)

\* A name is a sequence of characters; the characters of the model:
\* letters, a space, an underscore, a dash and a punctuation mark.
Upper == {"A", "B", "F"}
Lower == {"a", "b", "f"}
lower_char(c) == CASE c = "A" -> "a" [] c = "B" -> "b" [] c = "F" -> "f" [] OTHER -> c

\* slug = name.lower()
lower(name) == [k \in 1..Len(name) |-> lower_char(name[k])]

\* re.sub(r'[^\w\s-]', '', slug)
RECURSIVE strip_other(_)
strip_other(s) ==
    IF s = <<>> THEN <<>>
    ELSE IF Head(s) \in Upper \cup Lower \cup {" ", "_", "-"}
    THEN <<Head(s)>> \o strip_other(Tail(s))
    ELSE strip_other(Tail(s))

\* re.sub(r'[\s_]+', '-', slug): every run of spaces and underscores is one dash
RECURSIVE dash_runs(_, _)
dash_runs(s, in_run) ==
    IF s = <<>> THEN <<>>
    ELSE IF Head(s) \in {" ", "_"}
    THEN (IF in_run THEN <<>> ELSE <<"-">>) \o dash_runs(Tail(s), TRUE)
    ELSE <<Head(s)>> \o dash_runs(Tail(s), FALSE)

\* re.sub(r'-+', '-', slug)
RECURSIVE squeeze_dashes(_, _)
squeeze_dashes(s, after_dash) ==
    IF s = <<>> THEN <<>>
    ELSE IF Head(s) = "-"
    THEN (IF after_dash THEN <<>> ELSE <<"-">>) \o squeeze_dashes(Tail(s), TRUE)
    ELSE <<Head(s)>> \o squeeze_dashes(Tail(s), FALSE)

\* slug.strip('-')
RECURSIVE lstrip_dash(_)
lstrip_dash(s) == IF s # <<>> /\ Head(s) = "-" THEN lstrip_dash(Tail(s)) ELSE s
RECURSIVE rstrip_dash(_)
rstrip_dash(s) ==
    IF s # <<>> /\ s[Len(s)] = "-" THEN rstrip_dash(SubSeq(s, 1, Len(s) - 1)) ELSE s

slugify(name) ==
    rstrip_dash(lstrip_dash(squeeze_dashes(dash_runs(strip_other(lower(name)), FALSE),
                                           FALSE)))

CpuCount == 3       \* cpu_count()
MaxParts == 3       \* folders get_folder_path walks through

\* num_workers = max(1, cpu_count() - 1)
num_workers == IF CpuCount - 1 > 1 THEN CpuCount - 1 ELSE 1

\* DocumentInfo, with two facts of the file system next to it: has_pdf is
\* (backup_dir / f"{uuid}.pdf").exists() and unchanged is the test of lines
\* 202-204 (not force, the output exists and is not older than the document).
DocumentInfo(name, parent, doc_type, has_pdf, unchanged) ==
    [name |-> name, parent |-> parent, doc_type |-> doc_type,
     has_pdf |-> has_pdf, unchanged |-> unchanged]

is_folder(doc) == doc.doc_type = "CollectionType"
is_trashed(doc) == doc.parent = "trash"

\* The metadata caches of the model: two documents and two folders.
Caches ==
    { [u \in {"d1", "d2", "f1", "f2"} |->
          CASE u = "d1" -> DocumentInfo(n1, p1, "DocumentType", TRUE, FALSE)
            [] u = "d2" -> DocumentInfo(n2, p2, "DocumentType", h2, u2)
            [] u = "f1" -> DocumentInfo(fn, fp1, "CollectionType", FALSE, FALSE)
            [] u = "f2" -> DocumentInfo(<<"f">>, fp2, "CollectionType", FALSE, FALSE)] :
        n1 \in { <<"a">>, <<"a", " ", "b">> },
        p1 \in { "", "f1" },
        n2 \in { <<"a">>, <<"A", "!">>, <<"a", "_", "b">> },
        p2 \in { "", "f1", "f2", "trash" },
        h2 \in BOOLEAN,
        u2 \in BOOLEAN,
        fn \in { <<"f">>, <<"F">> },
        fp1 \in { "", "f2" },
        fp2 \in { "", "f1" } }

\* cache.documents(): the documents, folders and trash left out
RECURSIVE documents(_, _)
documents(cache, uuids) ==
    IF uuids = <<>> THEN <<>>
    ELSE IF is_folder(cache[Head(uuids)]) \/ is_trashed(cache[Head(uuids)])
    THEN documents(cache, Tail(uuids))
    ELSE <<Head(uuids)>> \o documents(cache, Tail(uuids))

RECURSIVE reverse(_)
reverse(s) == IF s = <<>> THEN <<>> ELSE Append(reverse(Tail(s)), Head(s))

\* output_dir / folder_path / f"{slugify(doc.name)}.pdf", as the folders below
\* output_dir and the file name without ".pdf"; folder_path is
\* "/".join(parts) after parts.reverse().
output_path(parts, name) == [folders |-> reverse(parts), file |-> slugify(name)]

\* (str(backup_dir), doc.uuid, str(output_path), doc.name)
work_item(cache, uuid, parts) ==
    [doc_uuid |-> uuid, output_path |-> output_path(parts, cache[uuid].name),
     doc_name |-> cache[uuid].name]

InitBatch ==
    /\ data = <<>> /\ pos = 0 /\ pc = "idle" /\ err = "none" /\ strokes = <<>>
    /\ hdr_start = 0 /\ block_type = 0 /\ block_end = 0 /\ iter = 0
    /\ caught = "none" /\ reader_block_end = None /\ tag_call = NoCall
    /\ stroke_block = <<>>
    /\ RenderIdle /\ MainIdle /\ ExportIdle
    /\ items \in Caches
    /\ todo = <<>>
    /\ walk = None
    /\ work_items = <<>>
    /\ batch_pc = "start"
    /\ running = {}
    /\ finished = {}

\* lines 186-190: cache = MetadataCache(backup_dir); cache.documents()
LoadCache ==
    /\ batch_pc = "start"
    /\ todo' = documents(items, <<"d1", "d2", "f1", "f2">>)
    /\ batch_pc' = "gather"
    /\ UNCHANGED <<items, walk, work_items, running, finished>>
    /\ UNCHANGED <<parser_vars, render_vars, main_vars, export_vars>>

\* lines 190-195: the next document; without its PDF it is passed over, else
\* get_folder_path(doc.uuid) begins (folders.py:84-91)
NextDocument ==
    /\ batch_pc = "gather"
    /\ todo # <<>>
    /\ todo' = Tail(todo)
    /\ IF ~items[Head(todo)].has_pdf
       THEN UNCHANGED <<walk, batch_pc>>
       ELSE /\ walk' = [uuid |-> Head(todo), parts |-> <<>>,
                        current_parent |-> items[Head(todo)].parent]
            /\ batch_pc' = "walk"
    /\ UNCHANGED <<items, work_items, running, finished>>
    /\ UNCHANGED <<parser_vars, render_vars, main_vars, export_vars>>

\* `while current_parent and current_parent != "trash"` with a parent that
\* is in the cache
walk_goes_on(cache, w) ==
    /\ w.current_parent # ""
    /\ w.current_parent # "trash"
    /\ w.current_parent \in DOMAIN cache

\* folders.py:93-98: one pass of the loop of get_folder_path
FolderStep ==
    /\ batch_pc = "walk"
    /\ walk_goes_on(items, walk)
    /\ Len(walk.parts) < MaxParts
    /\ walk' = [walk EXCEPT !.parts = Append(@, slugify(items[walk.current_parent].name)),
                            !.current_parent = items[walk.current_parent].parent]
    /\ UNCHANGED <<items, todo, work_items, batch_pc, running, finished>>
    /\ UNCHANGED <<parser_vars, render_vars, main_vars, export_vars>>

\* folders.py:100-102 and pdf_export.py:196-208: the folder path is complete;
\* the work item is added unless the output is up to date
AddWorkItem ==
    /\ batch_pc = "walk"
    /\ ~walk_goes_on(items, walk)
    /\ work_items' = IF items[walk.uuid].unchanged THEN work_items
                     ELSE Append(work_items, work_item(items, walk.uuid, walk.parts))
    /\ walk' = None
    /\ batch_pc' = "gather"
    /\ UNCHANGED <<items, todo, running, finished>>
    /\ UNCHANGED <<parser_vars, render_vars, main_vars, export_vars>>

\* lines 219-227: return without work, else Pool(num_workers)
StartPool ==
    /\ batch_pc = "gather"
    /\ todo = <<>>
    /\ batch_pc' = IF work_items = <<>> THEN "done" ELSE "pool"
    /\ UNCHANGED <<items, todo, walk, work_items, running, finished>>
    /\ UNCHANGED <<parser_vars, render_vars, main_vars, export_vars>>

\* a free worker process takes work item k: _export_worker(work_items[k])
\* opens and writes work_items[k].output_path
WorkerStarts ==
    /\ batch_pc = "pool"
    /\ Cardinality(running) < num_workers
    /\ \E k \in 1..Len(work_items) :
           /\ k \notin running \cup finished
           /\ running' = running \cup {k}
    /\ UNCHANGED <<items, todo, walk, work_items, batch_pc, finished>>
    /\ UNCHANGED <<parser_vars, render_vars, main_vars, export_vars>>

\* a worker returns (doc_name, success)
WorkerReturns ==
    /\ batch_pc = "pool"
    /\ \E k \in running :
           /\ running' = running \ {k}
           /\ finished' = finished \cup {k}
    /\ UNCHANGED <<items, todo, walk, work_items, batch_pc>>
    /\ UNCHANGED <<parser_vars, render_vars, main_vars, export_vars>>

\* line 236: every result was received
PoolDone ==
    /\ batch_pc = "pool"
    /\ finished = 1..Len(work_items)
    /\ batch_pc' = "done"
    /\ UNCHANGED <<items, todo, walk, work_items, running, finished>>
    /\ UNCHANGED <<parser_vars, render_vars, main_vars, export_vars>>

NextBatch ==
    \/ LoadCache \/ NextDocument \/ FolderStep \/ AddWorkItem
    \/ StartPool \/ WorkerStarts \/ WorkerReturns \/ PoolDone

SpecBatch == InitBatch /\ [][NextBatch]_vars

----------------------------------------------------------------------------
(* Properties *)

\* The file begins with the header literal.
StartsWithHeader(d) ==
    Len(d) >= Len(HEADER_V6) /\ SubSeq(d, 1, Len(HEADER_V6)) = HEADER_V6

\* C1: when the header of the next block is read, the cursor is at
\* start + 8 + length of the block before it, tombstones included.
C1_BlockSkip == (pc = "loop" /\ iter > 0) => pos = block_end

\* The LineItem blocks of the file with deleted_length = 0, walking the blocks
\* by their declared lengths from the end of the file header.
RECURSIVE LiveFrom(_, _)
RECURSIVE LiveStep(_, _)
IsLive(h, item) ==
    IF h.val[1] = LineItem /\ item.err = "none" /\ item.val = 0 THEN 1 ELSE 0
LiveFrom(d, p) == LiveStep(d, read_block_header(d, At(p)))
LiveStep(d, h) ==
    IF h.err # "none" \/ h.val = None THEN 0
    ELSE IsLive(h, read_scene_item(d, h)) + LiveFrom(d, h.pos + h.val[2])
LiveLineItems(d) == IF StartsWithHeader(d) THEN LiveFrom(d, Len(HEADER_V6)) ELSE 0

\* C2: the Document never holds more strokes than the file has LineItem
\* blocks with deleted_length = 0.
C2_TombstoneExclusion == Len(strokes) <= LiveLineItems(data)

\* C3: the first block header is read at offset 44.
C3_HeaderConsumes44 == (pc = "loop" /\ iter = 0) => pos = 44

\* C4 as stated: an input without the valid header fails with the bad-header
\* error (ValueError) alone, before any block is read.
C4_BadHeaderOneKind ==
    (~StartsWithHeader(data) /\ pc # "start")
        => (pc = "failed" /\ err = "ValueError" /\ iter = 0)

\* C4 as amended: an input without the valid header fails before any block is
\* read and no Document is returned; the error is EOFError when the input is
\* shorter than the header and ValueError when the header bytes are wrong.
C4_BadHeaderFails ==
    (~StartsWithHeader(data) /\ pc # "start")
        => /\ pc = "failed"
           /\ iter = 0
           /\ strokes = <<>>
           /\ err = IF Len(data) < Len(HEADER_V6) THEN "EOFError" ELSE "ValueError"

C4_Witness ==
    pc = "failed" /\ err = "EOFError" /\ Len(data) > 0 /\ Len(data) < Len(HEADER_V6)

\* C5: a file with a valid header that ends inside a block header (1 to 7 of
\* its 8 bytes present) ends the parse normally.
C5_TruncatedHeaderIsEof ==
    (/\ StartsWithHeader(data)
     /\ pc \in {"done", "failed"}
     /\ hdr_start < Len(data)
     /\ Len(data) - hdr_start < 8)
        => (pc = "done" /\ err = "none")

BodyRaises ==
    \/ pc = "envelope" /\ read_scene_item(data, At(pos)).err # "none"
    \/ pc = "value" /\ read_value(data, At(pos), reader_block_end).err # "none"

\* C6: an error raised while reading the body of a LineItem adds no stroke,
\* keeps the strokes collected, leaves the cursor at the block's end and
\* goes on to the next block header instead of leaving parse_file.
C6_BodyErrorsCaught ==
    [][BodyRaises => (strokes' = strokes /\ pos' = block_end /\ pc' = "loop")]_vars

C6_Witness ==
    /\ pc = "loop"
    /\ caught # "none"
    /\ strokes # <<>>
    /\ pos = block_end
    /\ pos < Len(data)

\* C7: every stroke of the Document has at least one point.
C7_StrokesHavePoints == \A i \in 1..Len(strokes) : Len(strokes[i].points) >= 1

\* The block body at p is a live LineItem whose line data parses to the end
\* and holds no point.
ZeroPointLine(d, p) ==
    \E item \in {read_scene_item(d, At(p))} :
        /\ item.err = "none"
        /\ item.val = 0
        /\ \E item_type \in {read_uint8(d, read_subblock(d, item, 6))} :
               /\ item_type.err = "none"
               /\ item_type.val = 3
               /\ \E stroke \in {read_line_data(d, item_type)} :
                      stroke.err = "none" /\ stroke.val.points = <<>>

C7_Witness ==
    /\ pc = "loop"
    /\ iter = 1
    /\ block_type = LineItem
    /\ caught = "none"
    /\ ZeroPointLine(data, hdr_start + 8)
    /\ strokes = <<>>

\* C8: _check_tag and has_subblock leave the cursor where it was, whatever
\* the stream holds at the cursor.
C8_CheckTagIsLookahead ==
    tag_call.op \in {"_check_tag", "has_subblock"} => pos = tag_call.pos0

C8_Witness ==
    /\ tag_call.op = "_check_tag"
    /\ ~tag_call.ret
    /\ pos < Len(data)
    /\ _read_tag(data, At(pos)).err = "EOFError"

\* C9: at the end of the current block has_subblock(6) is false, whatever
\* bytes follow the block.
C9_NoTagPastBlockEnd ==
    (pc = "value" /\ pos = block_end)
        => ~has_subblock(data, At(pos), reader_block_end, 6).val

TagOutcome(call, tag, p) ==
    IF tag.val = 16 * call.index + call.type
    THEN call.ret /\ p = tag.pos
    ELSE ~call.ret /\ p = call.pos0

\* C10: for every tag value read by _expect_tag, a value other than
\* (index, type) makes it fail with the cursor back where the tag began, and
\* a match leaves the cursor just after the tag.
C10_ExpectTagRewinds ==
    (tag_call.op = "_expect_tag" /\ read_varuint(data, At(tag_call.pos0)).err = "none")
        => TagOutcome(tag_call, read_varuint(data, At(tag_call.pos0)), pos)

\* C15: the strokes of the layer are in the order of the blocks they were
\* read from, and render_svg emits its paths in that order: of two emitted
\* paths the earlier one comes from the block that starts earlier in the file.
C15_FileOrder ==
    /\ Len(stroke_block) = Len(strokes)
    /\ \A i, j \in 1..Len(strokes) : i < j => stroke_block[i] < stroke_block[j]
    /\ \A k, l \in 1..Len(svg) :
           k < l => stroke_block[svg[k].of] < stroke_block[svg[l].of]

C15_Witness ==
    /\ pc = "done"
    /\ Len(strokes) = 2
    /\ svg_i = 2
    /\ Len(svg) = 2
    /\ Len(strokes[1].points) # Len(strokes[2].points)

\* The block whose header starts at p is a LineItem whose payload holds, after
\* the scene-item header, a subblock 6 with item_type 3.
LineValueIn(d, h, item) ==
    /\ h.err = "none"
    /\ h.val # None
    /\ h.val[1] = LineItem
    /\ item.err = "none"
    /\ item.pos < h.pos + h.val[2]
    /\ _read_tag(d, item).err = "none"
    /\ _read_tag(d, item).val = <<6, Length4>>
    /\ read_uint8(d, read_subblock(d, item, 6)).err = "none"
    /\ read_uint8(d, read_subblock(d, item, 6)).val = 3
HasLineValue(d, p) ==
    \E h \in {read_block_header(d, At(p))} :
        LineValueIn(d, h, read_scene_item(d, At(h.pos)))

\* C16: a block of another type than LineItem leaves the cursor at
\* header_end + length, and every stroke of the Document was read from a
\* LineItem whose payload holds a subblock 6 with item_type 3: blocks of other
\* types, LineItems without subblock 6 and LineItems of another item_type
\* contribute none.
C16_OnlyLinesContribute ==
    /\ (pc = "loop" /\ iter > 0 /\ block_type # LineItem) => pos = block_end
    /\ \A i \in 1..Len(strokes) : HasLineValue(data, stroke_block[i])

----------------------------------------------------------------------------
(* Properties of the renderers *)

\* C11: every <path> of render_svg and every stroke finished by
\* draw_stroke_on_page was made from a stroke whose pen is neither ERASER (6)
\* nor ERASER_AREA (8), and rendering leaves the Document, erasers included,
\* as parse_file returned it.
C11_NoEraserEmitted ==
    /\ [](/\ \A k \in 1..Len(svg) : strokes[svg[k].of].pen \notin {6, 8}
          /\ \A k \in 1..Len(shape) : strokes[shape[k].of].pen \notin {6, 8})
    /\ [][pc = "done" => strokes' = strokes]_vars

C11_Witness ==
    /\ svg_i = Len(strokes)
    /\ pdf_i = Len(strokes)
    /\ \E i \in 1..Len(strokes) : strokes[i].pen \in {6, 8} /\ Len(strokes[i].points) >= 2
    /\ Len(svg) = 1
    /\ Len(shape) = 1

\* C12: an emitted stroke has opacity 0.4 exactly when its pen is HIGHLIGHTER
\* (5), HIGHLIGHTER_2 (18) or SHADER (23), and opacity 1.0 otherwise (in SVG a
\* path without the opacity attribute has opacity 1).
C12_OpacityPartition ==
    /\ \A k \in 1..Len(svg) :
           svg[k].opacity = IF strokes[svg[k].of].pen \in {5, 18, 23} THEN <<40>> ELSE None
    /\ \A k \in 1..Len(shape) :
           shape[k].stroke_opacity =
               IF strokes[shape[k].of].pen \in {5, 18, 23} THEN <<2, 5>> ELSE <<1, 1>>

C12_Witness ==
    /\ Len(svg) = 2
    /\ Len(shape) = 2
    /\ strokes[1].pen = 23
    /\ strokes[2].pen = 99
    /\ svg[1].opacity = <<40>>
    /\ svg[2].opacity = None

\* The width the claim gives a stroke: the mean formula when some point width
\* is non-zero, the pen's base width scaled when all are zero.
ClaimedWidth(stroke) ==
    IF \E k \in 1..Len(stroke.points) : stroke.points[k].width # 0
    THEN RatMax(<<1, 2>>,
                RatDiv(Rat(sum_width(stroke.points, Len(stroke.points)),
                           4 * Len(stroke.points)),
                       RM_TO_PDF_SCALE))
    ELSE RatDiv(RatMul(base_width(stroke.pen), F64(stroke.thickness_scale)), RM_TO_PDF_SCALE)

\* C13: the emitted width of a rendered stroke is max(0.5, mean / S / 4.0)
\* when some point width is non-zero and PEN_BASE_WIDTH[pen] *
\* thickness_scale / S when all point widths are zero.
C13_WidthRule ==
    /\ \A k \in 1..Len(svg) : svg[k].stroke_width = fmt2(ClaimedWidth(strokes[svg[k].of]))
    /\ \A k \in 1..Len(shape) : shape[k].width = ClaimedWidth(strokes[shape[k].of])

\* The formatted output coordinates of a point and of a midpoint, for the
\* x_offset render_svg is called with.
Out(p) == <<fmt2(tx(p.x, svg_x_offset)), fmt2(ty(p.y))>>
OutMid(p, q) ==
    <<fmt2(mid(tx(p.x, svg_x_offset), tx(q.x, svg_x_offset))), fmt2(mid(ty(p.y), ty(q.y)))>>
Cmd(op, a) == [op |-> op, args |-> a]

PathAsClaimed(pts, d) ==
    /\ Len(pts) = 1 => d = << Cmd("M", Out(pts[1])), Cmd("l", <<10, 10>>) >>
    /\ Len(pts) = 2 => d = << Cmd("M", Out(pts[1])), Cmd("L", Out(pts[2])) >>
    /\ Len(pts) >= 3 =>
           /\ Len(d) = Len(pts)
           /\ d[1] = Cmd("M", Out(pts[1]))
           /\ d[2] = Cmd("L", OutMid(pts[1], pts[2]))
           /\ \A j \in 3..(Len(pts) - 1) :
                  d[j] = Cmd("Q", Out(pts[j - 1]) \o OutMid(pts[j - 1], pts[j]))
           /\ d[Len(pts)] = Cmd("Q", Out(pts[Len(pts) - 1]) \o Out(pts[Len(pts)]))

\* C14: the path of n points is M p0, l 0.1 0.1 for n = 1; M p0, L p1 for
\* n = 2; and for n >= 3 M p0, L mid(p0, p1), a Q with control p(i-1) and end
\* mid(p(i-1), p(i)) for each 1 < i < n-1, and last a Q with control p(n-2)
\* and end p(n-1).
C14_PathShape ==
    \A k \in 1..Len(svg) : PathAsClaimed(strokes[svg[k].of].points, svg[k].d)

C14_Witness ==
    /\ Len(svg) = 2
    /\ Len(strokes[svg[1].of].points) = 4
    /\ Len(svg[1].d) = 4
    /\ svg[1].d[3].op = "Q"
    /\ Len(strokes[svg[2].of].points) = 1

----------------------------------------------------------------------------
(* Properties of main *)

\* C17: when more than one input file was found, the process ends with exit
\* code 0 and every input file was gone through, whatever failed on the way.
C17_BatchExitsZero ==
    (main_pc = "exit" /\ Len(input_files) > 1)
        => (exit_code = <<0>> /\ Len(reports) = Len(input_files))

----------------------------------------------------------------------------
(* Properties of export_annotated_pdf *)

\* the pages before page n on which drawing and committing succeed
Drawable(pages, n) == { k \in 1..n : pages[k].kind = "ok" }

\* C18: no page is committed more than once, and when the PDF and its
\* annotations exist and the output can be written, the output holds exactly
\* one committed shape for every page whose drawing and commit succeeded, also
\* when drawing or committing another page failed, and every page was gone
\* through.
C18_PageFailureIsLocal ==
    /\ \A n \in 1..Len(pdf.pages) : pdf.pages[n].commits <= 1
    /\ (export_pc = "returned" /\ pdf.found /\ pdf.annotated /\ pdf.writable)
           => /\ page_num = Len(pdf.pages)
              /\ saved # None
              /\ \A n \in 1..Len(pdf.pages) :
                     saved[1][n] = IF n \in Drawable(pdf.pages, Len(pdf.pages)) THEN 1 ELSE 0

----------------------------------------------------------------------------
(* Properties of export_all_pdfs *)

\* C19: no two work items have the same output path, and no two workers
\* running at the same time write the same output file.
C19_DistinctOutputs ==
    /\ \A k, l \in 1..Len(work_items) :
           k # l => work_items[k].output_path # work_items[l].output_path
    /\ \A k, l \in running :
           k # l => work_items[k].output_path # work_items[l].output_path

----------------------------------------------------------------------------
(* Properties of read_varuint *)

\* C20: read_varuint fails whenever more than 10 bytes with the continuation
\* bit set come before the byte that ends the number; a call that returns
\* a value has consumed at most 10 such bytes.
C20_VaruintCapped ==
    (tag_call.op = "read_varuint" /\ tag_call.ret)
        => (pos - tag_call.pos0) - 1 <= 10

----------------------------------------------------------------------------
(* Properties of the coordinate transform *)

\* The stroke of the example: its first three points are (0, 0), (100, 200)
\* and (200, 400), and render_svg was called with x_offset = (595 / 2) * S.
ExamplePath(k) ==
    /\ svg_x_offset = RatMul(<<595, 2>>, <<227, 72>>)
    /\ Len(strokes[svg[k].of].points) >= 3
    /\ \A j \in 1..3 :
           /\ F32(strokes[svg[k].of].points[j].x) = <<100 * (j - 1), 1>>
           /\ F32(strokes[svg[k].of].points[j].y) = <<200 * (j - 1), 1>>

\* C21 as stated: the path of the example begins "M 297.50 0.00 L 313.37 31.72 Q".
C21_AsStated ==
    \A k \in 1..Len(svg) :
        ExamplePath(k) =>
            /\ svg[k].d[1] = [op |-> "M", args |-> <<29750, 0>>]
            /\ svg[k].d[2] = [op |-> "L", args |-> <<31337, 3172>>]
            /\ svg[k].d[3].op = "Q"

\* C21: the path of the example begins "M 297.50 0.00 L 313.36 31.72 Q", and
\* every coordinate of it is (x + x_offset) / S or y / S, or the midpoint of
\* two such values, rounded to two fractional digits.
C21_ExamplePath ==
    \A k \in 1..Len(svg) :
        ExamplePath(k) =>
            /\ svg[k].d[1] = [op |-> "M", args |-> <<29750, 0>>]
            /\ svg[k].d[2] = [op |-> "L", args |-> <<31336, 3172>>]
            /\ svg[k].d[3].op = "Q"
            /\ PathAsClaimed(strokes[svg[k].of].points, svg[k].d)

C21_Witness ==
    /\ Len(svg) >= 1
    /\ ExamplePath(1)
    /\ Len(strokes[svg[1].of].points) = 3
    /\ svg[1].d[2].args = <<31336, 3172>>

----------------------------------------------------------------------------
(* Properties of the block bounds *)

\* C22: when the value of a live LineItem is about to be read, the cursor is
\* inside the block, and if the read yields a kept stroke it ends inside the
\* block as well: every byte the stroke was built from is a byte of the
\* block's payload.
C22_StrokeInsideBlock ==
    (pc = "value" /\ read_value(data, At(pos), reader_block_end).err = "none"
                  /\ read_value(data, At(pos), reader_block_end).val # <<>>)
        => /\ hdr_start + 8 <= pos
           /\ read_value(data, At(pos), reader_block_end).pos <= block_end

----------------------------------------------------------------------------
(* Termination of parse_file *)

\* C23: each block header after the first is read at least 8 bytes after the
\* one before it, on every path through the loop body, and parse_file ends,
\* by returning the Document or by raising.
C23_ParseTerminates ==
    /\ [][(pc = "loop" /\ iter > 0) => hdr_start' >= hdr_start + 8]_vars
    /\ <>(pc \in {"done", "failed"})

\* back at the head of the loop after two passes, the second of them ended
\* by the `except Exception`, with the cursor past both block headers
C23_Witness ==
    /\ pc = "loop"
    /\ iter >= 2
    /\ caught # "none"
    /\ hdr_start >= Len(HEADER_V6) + 8
    /\ pos >= hdr_start + 8

----------------------------------------------------------------------------
(* The two renderers against each other *)

SvgOf(i) == { k \in 1..Len(svg) : svg[k].of = i }
PdfOf(i) == { k \in 1..Len(shape) : shape[k].of = i }

\* the <path> element and the finished shape show the same colour, width (to
\* the two digits the SVG keeps) and opacity
SameStyle(path, drawn) ==
    /\ \A c \in 1..3 : drawn.color[c] = Rat(path.stroke[2][c], 255)
    /\ path.stroke_width = fmt2(drawn.width)
    /\ path.opacity = opacity_attribute(drawn.stroke_opacity)

\* C24: once both renderers have gone through the Document, a stroke has a
\* <path> in the SVG exactly if it was drawn on the PDF page, and then both
\* have the same colour, width and opacity.
C24_RenderersAgree ==
    (pc = "done" /\ svg_i = Len(strokes) /\ pdf_i = Len(strokes))
        => \A i \in 1..Len(strokes) :
               /\ (SvgOf(i) # {}) <=> (PdfOf(i) # {})
               /\ \A k \in SvgOf(i), l \in PdfOf(i) : SameStyle(svg[k], shape[l])

----------------------------------------------------------------------------
(* Termination of get_folder_path *)

Folders(cache) == { u \in DOMAIN cache : is_folder(cache[u]) }

\* C25: get_folder_path ends for every cache: its loop passes through each
\* folder of the cache at most once, so parts never holds more names than
\* the cache has folders.
C25_FolderWalkEnds ==
    walk # None => Len(walk.parts) <= Cardinality(Folders(items))

=============================================================================
